---- MODULE Spec2Model ----
(***************************************************************************)
(* A model of the DataSet class of saucie_utils.py (the epoch/batch        *)
(* sampler next_batch, _shuffle_data, save/load) and of load_dataset.      *)
(*                                                                         *)
(* A row of the training matrix is a record [id, x]: x is the value of     *)
(* its single column and id is the position the row had in the matrix      *)
(* handed to the constructor, so that "the same row" can be told from "a   *)
(* row with the same value".  A label is an integer.                       *)
(***************************************************************************)
EXTENDS Integers, Sequences, FiniteSets, TLC

\* ---------------------------------------------------------------- bounds
\* largest training matrix of a shuffling DataSet
MaxN == 3
\* largest training matrix of a DataSet constructed with shuffle=False
MaxNoShuffleN == 10
\* largest training matrix of a DataSet that is saved and loaded
MaxPersistN == 2
\* largest raw measurement, in whole units
MaxRaw == 2
\* number of save / load / load_dataset operations explored
MaxOps == 2
\* number of next_batch calls explored from a fresh DataSet
MaxCalls == 4
\* the same for a shuffling DataSet, where every wrap branches into every
\* permutation
MaxShuffleCalls == 3
\* how far outside 0 < batch_size <= n_train a call's batch_size may lie
MaxOutside == 1

VARIABLES
    num_samples,      \* self._num_samples
    shuffle,          \* self._shuffle
    labeled,          \* self._labeled
    data,             \* self._data, a sequence of rows
    labels,           \* self._labels, a sequence of integers (<<>> if unlabeled)
    index_in_epoch,   \* self._index_in_epoch
    epochs_trained,   \* self._epochs_trained
    batch_number,     \* self._batch_number
    ret,              \* what the last next_batch call returned or raised
    calls,            \* the next_batch calls made so far: how many, their sizes
    stream,           \* the rows returned so far, cut into blocks of num_samples
    pc,               \* the statement of next_batch about to run, or "idle"
    frame,            \* the local variables of the running next_batch call
    entry,            \* the counters as they were when the running call began
    test_data,        \* self._test_data
    test_labels,      \* self._test_labels
    params,           \* self._min, _max, _components, _mean_offset
    npz,              \* the archive on disk, or NoFile
    last_op           \* the operation that produced this state

sampler == <<num_samples, shuffle, labeled, data, labels,
             index_in_epoch, epochs_trained, batch_number>>
observed == <<ret, calls, stream>>
stepvars == <<pc, frame, entry>>
filevars == <<test_data, test_labels, params, npz, last_op>>
vars == <<num_samples, shuffle, labeled, data, labels,
          index_in_epoch, epochs_trained, batch_number, ret, calls, stream,
          pc, frame, entry, test_data, test_labels, params, npz, last_op>>

\* numbers are fixed-point: FloatUnit stands for 1.0
FloatUnit == 1000

\* ------------------------------------------------------- numpy / python
Min(a, b) == IF a < b THEN a ELSE b
Max(a, b) == IF a > b THEN a ELSE b

\* a python slice bound, clamped as python clamps it
SliceBound(i, len) == IF i < 0 THEN Max(i + len, 0) ELSE Min(i, len)

\* arr[lo:hi]
PySlice(arr, lo, hi) ==
    SubSeq(arr, SliceBound(lo, Len(arr)) + 1, SliceBound(hi, Len(arr)))

\* arr[lo:]
PySliceFrom(arr, lo) == SubSeq(arr, SliceBound(lo, Len(arr)) + 1, Len(arr))

\* arr[:hi]
PySliceTo(arr, hi) == SubSeq(arr, 1, SliceBound(hi, Len(arr)))

\* np.concatenate([a, b], axis=0)
Concatenate(a, b) == a \o b

\* the outcomes of np.random.shuffle(np.arange(n)): every permutation
\* (positions are 1-based here)
ShuffledIdx(n) ==
    {p \in [1..n -> 1..n] : \A i, j \in 1..n : p[i] = p[j] => i = j}

\* np.arange(n) left as it is
Arange(n) == [i \in 1..n |-> i]

\* arr[idx], numpy integer-array indexing
Take(arr, idx) == [i \in 1..Len(idx) |-> arr[idx[i]]]

\* ------------------------------------------------------ _shuffle_data
\* self._data = self._data[shuffled_idx]
shuffled_data(d, idx) == Take(d, idx)

shuffled_labels_unpermuted(l, idx, isLabeled) == l

\* if self._labeled: self._labels = self._labels[shuffled_idx]
shuffled_labels(l, idx, isLabeled) == IF isLabeled THEN Take(l, idx) ELSE l

\* ---------------------------------------------------------- next_batch
wraps_at_boundary(start, batch_size, n) == start + batch_size >= n

wraps_one_late(start, batch_size, n) == start + batch_size > n + 1

\* if start + batch_size > self._num_samples
wraps(start, batch_size, n) == start + batch_size > n

remaining_one_short(batch_size, n, start) == batch_size - (n - start) - 1

\* remaining = batch_size - (self._num_samples - start)
remaining_rows(batch_size, n, start) == batch_size - (n - start)

tail_rows_after_shuffle(before, after, start) == PySliceFrom(after, start)

\* data_batch = self._data[start:], taken before self._shuffle_data()
tail_rows(before, after, start) == PySliceFrom(before, start)

head_rows_before_shuffle(before, after, remaining) == PySliceTo(before, remaining)

\* self._data[:remaining], taken after self._shuffle_data()
head_rows(before, after, remaining) == PySliceTo(after, remaining)

\* the operation that produced a state: its name, and for load_dataset the
\* dataset name and the file type of data_path; n counts the operations
Op(name, dataset, filetype) ==
    [name |-> name, dataset |-> dataset, filetype |-> filetype,
     n |-> last_op.n + 1]
NoOp == [name |-> "__init__", dataset |-> "", filetype |-> "", n |-> 0]

NoReturn == [status |-> "none", data |-> <<>>, labels |-> <<>>]
Raised(what) == [status |-> what, data |-> <<>>, labels |-> <<>>]
Batch(d, l) == [status |-> "ok", data |-> d, labels |-> l]

\* the stream of returned rows, cut into consecutive blocks of n rows:
\* block is the unfinished last block, prev the last finished one
RECURSIVE Deliver(_, _, _)
Deliver(s, rows, n) ==
    IF rows = <<>> THEN s
    ELSE LET b == Append(s.block, Head(rows))
         IN  IF Len(b) >= n
             THEN Deliver([block |-> <<>>, prev |-> b, done |-> s.done + 1],
                          Tail(rows), n)
             ELSE Deliver([s EXCEPT !.block = b], Tail(rows), n)

Called(batch_size) ==
    [count   |-> calls.count + 1,
     size    |-> IF calls.count = 0 THEN batch_size ELSE calls.size,
     uniform |-> calls.count = 0 \/ (calls.uniform /\ calls.size = batch_size),
     last    |-> batch_size]

\* one whole call of next_batch(batch_size)
next_batch(batch_size) ==
    /\ calls' = Called(batch_size)
    /\ last_op' = Op("next_batch", "", "")
    /\ UNCHANGED <<num_samples, shuffle, labeled>>
    /\ UNCHANGED <<pc, frame, entry, test_data, test_labels, params, npz>>
    /\ IF ~(batch_size <= num_samples)
       THEN \* assert batch_size <= self._num_samples
            /\ ret' = Raised("AssertionError")
            /\ UNCHANGED <<data, labels, index_in_epoch, epochs_trained,
                           batch_number, stream>>
       ELSE LET start == index_in_epoch IN
            IF wraps(start, batch_size, num_samples)
            THEN LET remaining == remaining_rows(batch_size, num_samples, start)
                 IN  \E idx \in (IF shuffle THEN ShuffledIdx(num_samples)
                                 ELSE {Arange(num_samples)}) :
                       /\ epochs_trained' = epochs_trained + 1
                       /\ data' = IF shuffle THEN shuffled_data(data, idx)
                                  ELSE data
                       /\ labels' = IF shuffle
                                    THEN shuffled_labels(labels, idx, labeled)
                                    ELSE labels
                       /\ ret' = Batch(
                            Concatenate(tail_rows(data, data', start),
                                        head_rows(data, data', remaining)),
                            IF labeled
                            THEN Concatenate(tail_rows(labels, labels', start),
                                             head_rows(labels, labels', remaining))
                            ELSE <<>>)
                       /\ index_in_epoch' = remaining
                       /\ batch_number' = 0 + 1
                       /\ stream' = Deliver(stream, ret'.data, num_samples)
            ELSE /\ ret' = Batch(
                      PySlice(data, start, start + batch_size),
                      IF labeled THEN PySlice(labels, start, start + batch_size)
                      ELSE <<>>)
                 /\ index_in_epoch' = start + batch_size
                 /\ batch_number' = batch_number + 1
                 /\ stream' = Deliver(stream, ret'.data, num_samples)
                 /\ UNCHANGED <<data, labels, epochs_trained>>

\* ------------------------------------------------------------ __init__
\* the training matrix and labels handed to the constructor
RowValue(i) == (i % 2) * FloatUnit
TrainMatrix(n) == [i \in 1..n |-> [id |-> i, x |-> RowValue(i)]]
LabelOf(i) == 10 + i
TrainLabels(n) == [i \in 1..n |-> LabelOf(i)]

\* DataSet(shuffle=sh, labeled=lb, _data=d, _labels=l)
Constructed(sh, lb, d, l) ==
    /\ num_samples = Len(d)
    /\ shuffle = sh
    /\ labeled = lb
    /\ index_in_epoch = 0
    /\ epochs_trained = 0
    /\ batch_number = 0
    /\ \E idx \in (IF sh THEN ShuffledIdx(Len(d)) ELSE {Arange(Len(d))}) :
         /\ data = IF sh THEN shuffled_data(d, idx) ELSE d
         /\ labels = IF sh THEN shuffled_labels(l, idx, lb) ELSE l

NoFrame == [batch_size |-> 0, start |-> 0, remaining |-> 0,
            data_batch |-> <<>>, labels_batch |-> <<>>]
NoEntry == [counters |-> <<0, 0, 0>>, at |-> "idle"]
\* the normalization attributes: each a per-column vector, <<>> when the
\* DataSet has no such attribute
NoParams == [min |-> <<>>, max |-> <<>>,
             components |-> <<>>, mean_offset |-> <<>>]
NoFile == [exists |-> FALSE]

Fresh ==
    /\ pc = "idle" /\ frame = NoFrame /\ entry = NoEntry
    /\ ret = NoReturn
    /\ calls = [count |-> 0, size |-> 0, uniform |-> TRUE, last |-> 0]
    /\ stream = [block |-> <<>>, prev |-> <<>>, done |-> 0]

Init ==
    /\ Fresh
    /\ test_data = <<>> /\ test_labels = <<>> /\ params = NoParams
    /\ npz = NoFile /\ last_op = NoOp
    /\ \E sh \in BOOLEAN, lb \in BOOLEAN :
       \E n \in 1..(IF sh THEN MaxN ELSE MaxNoShuffleN) :
         Constructed(sh, lb, TrainMatrix(n), IF lb THEN TrainLabels(n) ELSE <<>>)

\* the bound on the calls explored
CallsLeft == calls.count < (IF shuffle THEN MaxShuffleCalls ELSE MaxCalls)

\* next_batch called within its contract, 0 < batch_size <= n_train
NextBatch ==
    /\ CallsLeft
    /\ \E batch_size \in 1..num_samples : next_batch(batch_size)

Next == NextBatch

Spec == Init /\ [][Next]_vars

\* next_batch called with any batch_size, inside its contract or not
NextBatchAny ==
    /\ CallsLeft
    /\ \E batch_size \in (0 - MaxOutside)..(num_samples + MaxOutside) :
         next_batch(batch_size)

NextAny == NextBatchAny

SpecAny == Init /\ [][NextAny]_vars

\* ------------------------------------------- next_batch, line by line
\* The same method with one action per statement, and an exception raised
\* between two statements (a KeyboardInterrupt, or a MemoryError of the
\* numpy call about to run) which ends the call where it stands.
Counters == <<index_in_epoch, epochs_trained, batch_number>>

Goto(l) == pc' = l

\* next_batch(batch_size) is entered
Call ==
    /\ pc = "idle" /\ CallsLeft
    /\ \E batch_size \in 1..num_samples :
         /\ frame' = [NoFrame EXCEPT !.batch_size = batch_size]
         /\ calls' = Called(batch_size)
    /\ entry' = [counters |-> Counters, at |-> "running"]
    /\ Goto("L311") /\ last_op' = Op("next_batch", "", "")
    /\ UNCHANGED <<sampler, ret, stream, test_data, test_labels, params, npz>>

\* assert batch_size <= self._num_samples
L311 ==
    /\ pc = "L311"
    /\ IF frame.batch_size <= num_samples
       THEN Goto("L312") /\ UNCHANGED <<ret, entry>>
       ELSE /\ Goto("idle") /\ ret' = Raised("AssertionError")
            /\ entry' = [entry EXCEPT !.at = "L311"]
    /\ UNCHANGED <<sampler, frame, calls, stream, filevars>>

\* start = self._index_in_epoch
L312 ==
    /\ pc = "L312"
    /\ frame' = [frame EXCEPT !.start = index_in_epoch]
    /\ Goto("L313")
    /\ UNCHANGED <<sampler, observed, entry, filevars>>

\* if start + batch_size > self._num_samples:
L313 ==
    /\ pc = "L313"
    /\ IF wraps(frame.start, frame.batch_size, num_samples)
       THEN Goto("L314") ELSE Goto("L331")
    /\ UNCHANGED <<sampler, observed, frame, entry, filevars>>

\* self._epochs_trained += 1
L314 ==
    /\ pc = "L314"
    /\ epochs_trained' = epochs_trained + 1
    /\ Goto("L315")
    /\ UNCHANGED <<num_samples, shuffle, labeled, data, labels, index_in_epoch,
                   batch_number, observed, frame, entry, filevars>>

\* self._batch_number = 0
L315 ==
    /\ pc = "L315"
    /\ batch_number' = 0
    /\ Goto("L316")
    /\ UNCHANGED <<num_samples, shuffle, labeled, data, labels, index_in_epoch,
                   epochs_trained, observed, frame, entry, filevars>>

\* data_batch = self._data[start:]
\* if self._labeled: labels_batch = self._labels[start:]
L316 ==
    /\ pc = "L316"
    /\ frame' = [frame EXCEPT
                   !.data_batch = PySliceFrom(data, frame.start),
                   !.labels_batch = IF labeled
                                    THEN PySliceFrom(labels, frame.start)
                                    ELSE <<>>]
    /\ Goto("L319")
    /\ UNCHANGED <<sampler, observed, entry, filevars>>

\* remaining = batch_size - (self._num_samples - start)
L319 ==
    /\ pc = "L319"
    /\ frame' = [frame EXCEPT !.remaining =
                   remaining_rows(frame.batch_size, num_samples, frame.start)]
    /\ Goto("L320")
    /\ UNCHANGED <<sampler, observed, entry, filevars>>

\* if self._shuffle: self._shuffle_data()
L320 ==
    /\ pc = "L320"
    /\ \E idx \in (IF shuffle THEN ShuffledIdx(num_samples)
                   ELSE {Arange(num_samples)}) :
         /\ data' = IF shuffle THEN shuffled_data(data, idx) ELSE data
         /\ labels' = IF shuffle THEN shuffled_labels(labels, idx, labeled)
                      ELSE labels
    /\ Goto("L322")
    /\ UNCHANGED <<num_samples, shuffle, labeled, index_in_epoch,
                   epochs_trained, batch_number, observed, frame, entry,
                   filevars>>

\* start = 0
L322 ==
    /\ pc = "L322"
    /\ frame' = [frame EXCEPT !.start = 0]
    /\ Goto("L323")
    /\ UNCHANGED <<sampler, observed, entry, filevars>>

\* data_batch = np.concatenate([data_batch, self._data[:remaining]], axis=0)
\* if self._labeled: labels_batch = np.concatenate([labels_batch, ...])
L323 ==
    /\ pc = "L323"
    /\ frame' = [frame EXCEPT
                   !.data_batch = Concatenate(frame.data_batch,
                                    PySliceTo(data, frame.remaining)),
                   !.labels_batch = IF labeled
                                    THEN Concatenate(frame.labels_batch,
                                           PySliceTo(labels, frame.remaining))
                                    ELSE <<>>]
    /\ Goto("L329")
    /\ UNCHANGED <<sampler, observed, entry, filevars>>

\* self._index_in_epoch = remaining
L329 ==
    /\ pc = "L329"
    /\ index_in_epoch' = frame.remaining
    /\ Goto("L335")
    /\ UNCHANGED <<num_samples, shuffle, labeled, data, labels, epochs_trained,
                   batch_number, observed, frame, entry, filevars>>

\* data_batch = self._data[start:start + batch_size]
\* if self._labeled: labels_batch = self._labels[start:start + batch_size]
L331 ==
    /\ pc = "L331"
    /\ frame' = [frame EXCEPT
                   !.data_batch = PySlice(data, frame.start,
                                          frame.start + frame.batch_size),
                   !.labels_batch = IF labeled
                                    THEN PySlice(labels, frame.start,
                                           frame.start + frame.batch_size)
                                    ELSE <<>>]
    /\ Goto("L334")
    /\ UNCHANGED <<sampler, observed, entry, filevars>>

\* self._index_in_epoch = start + batch_size
L334 ==
    /\ pc = "L334"
    /\ index_in_epoch' = frame.start + frame.batch_size
    /\ Goto("L335")
    /\ UNCHANGED <<num_samples, shuffle, labeled, data, labels, epochs_trained,
                   batch_number, observed, frame, entry, filevars>>

\* self._batch_number += 1
L335 ==
    /\ pc = "L335"
    /\ batch_number' = batch_number + 1
    /\ Goto("L336")
    /\ UNCHANGED <<num_samples, shuffle, labeled, data, labels, index_in_epoch,
                   epochs_trained, observed, frame, entry, filevars>>

\* batch = (data_batch, labels_batch) if self._labeled else data_batch
\* return batch
L336 ==
    /\ pc = "L336"
    /\ ret' = Batch(frame.data_batch, frame.labels_batch)
    /\ stream' = Deliver(stream, frame.data_batch, num_samples)
    /\ entry' = [entry EXCEPT !.at = "returned"]
    /\ frame' = NoFrame
    /\ Goto("idle")
    /\ UNCHANGED <<sampler, calls, filevars>>

\* an exception is raised in place of the statement at pc and leaves the call
Interrupted ==
    /\ pc # "idle"
    /\ ret' = Raised("Interrupted")
    /\ entry' = [entry EXCEPT !.at = pc]
    /\ frame' = NoFrame
    /\ Goto("idle")
    /\ UNCHANGED <<sampler, calls, stream, filevars>>

NextSteps ==
    \/ Call \/ L311 \/ L312 \/ L313 \/ L314 \/ L315 \/ L316 \/ L319 \/ L320
    \/ L322 \/ L323 \/ L329 \/ L331 \/ L334 \/ L335 \/ L336 \/ Interrupted

\* a fresh DataSet of at most MaxN rows
InitSteps == Init /\ num_samples <= MaxN

SpecSteps == InitSteps /\ [][NextSteps]_vars

\* ------------------------------------------------- normalization (numpy)
CYTOF_DATASETS == {"flu", "zika", "emt_cytof"}
RNASEQ_DATASETS == {"emt_rnaseq", "mouse"}

Xs(rows) == [i \in 1..Len(rows) |-> rows[i].x]
WithXs(rows, xs) == [i \in 1..Len(rows) |-> [rows[i] EXCEPT !.x = xs[i]]]
Elems(xs) == {xs[i] : i \in 1..Len(xs)}
ColMin(xs) == CHOOSE m \in Elems(xs) : \A v \in Elems(xs) : m <= v
ColMax(xs) == CHOOSE m \in Elems(xs) : \A v \in Elems(xs) : m >= v
RECURSIVE ColSum(_)
ColSum(xs) == IF xs = <<>> THEN 0 ELSE Head(xs) + ColSum(Tail(xs))

FMul(a, b) == (a * b) \div FloatUnit

\* np.arcsinh(y), by its series y - y^3/6 + 3y^5/40 (|y| < 1)
Arcsinh(y) ==
    LET y2 == FMul(y, y)
        y3 == FMul(y2, y)
        y5 == FMul(y3, y2)
    IN  y - (y3 \div 6) + ((3 * y5) \div 40)

\* np.arcsinh(x / 5)
arcsinh_div5(xs) == [i \in 1..Len(xs) |-> Arcsinh(xs[i] \div 5)]

\* MinMaxScaler.transform: (x - data_min_) / (data_max_ - data_min_), the
\* range of a constant column taken as 1
MinMaxTransform(xs, mn, mx) ==
    [i \in 1..Len(xs) |->
        IF mx = mn THEN xs[i] - mn
        ELSE ((xs[i] - mn) * FloatUnit) \div (mx - mn)]

\* np.percentile(x, 99.5, axis=0), linear interpolation between the two
\* largest values (fewer than 200 rows)
Percentile995(xs) ==
    LET k == Len(xs)
        mx == ColMax(xs)
        top == CHOOSE i \in 1..k : xs[i] = mx
        rest == {xs[i] : i \in (1..k) \ {top}}
        second == IF k = 1 THEN mx
                  ELSE CHOOSE m \in rest : \A v \in rest : m >= v
    IN  mx - ((5 * (k - 1) * (mx - second)) \div 1000)

\* np.clip(x, x.min(axis=0), np.percentile(x, 99.5, axis=0))
Clip(xs) ==
    [i \in 1..Len(xs) |-> Max(ColMin(xs), Min(xs[i], Percentile995(xs)))]

\* PCA.fit_transform on a one-column matrix: the column centred, times the
\* sign of its single component
PcaMean(xs) == ColSum(xs) \div Len(xs)
PcaTransform(xs, sign) == [i \in 1..Len(xs) |-> sign * (xs[i] - PcaMean(xs))]

\* ------------------------------------------------------- save and load
\* DataSet.save: np.savez_compressed(filename, **self.__dict__)
Archive ==
    [exists |-> TRUE,
     data |-> data, labels |-> labels,
     test_data |-> test_data, test_labels |-> test_labels,
     labeled |-> labeled, shuffle |-> shuffle, num_samples |-> num_samples,
     index_in_epoch |-> index_in_epoch, epochs_trained |-> epochs_trained,
     batch_number |-> batch_number, params |-> params]

load_shuffles_by_default(default, saved) == default

\* self._shuffle = shuffle (True, load passes none), then
\* self.__dict__.update(data_dict) puts the archive's _shuffle over it
load_shuffles(default, saved) == saved

\* DataSet.load(filename): cls(labeled=data_dict['_labeled'], **data_dict),
\* the DataSets it can return: __init__ takes every array of the archive,
\* recounts the rows, zeroes the counters and shuffles if _shuffle is set
LoadedDataSets(file) ==
    LET sh == load_shuffles(TRUE, file.shuffle) IN
    {[labeled |-> file.labeled, shuffle |-> sh,
      data |-> IF sh THEN shuffled_data(file.data, idx) ELSE file.data,
      labels |-> IF sh THEN shuffled_labels(file.labels, idx, file.labeled)
                 ELSE file.labels,
      test_data |-> file.test_data, test_labels |-> file.test_labels,
      params |-> file.params,
      num_samples |-> Len(file.data),
      index_in_epoch |-> 0, epochs_trained |-> 0, batch_number |-> 0]
     : idx \in (IF sh THEN ShuffledIdx(Len(file.data))
                ELSE {Arange(Len(file.data))})}

OpsLeft == last_op.n < MaxOps

Save ==
    /\ OpsLeft
    /\ npz' = Archive
    /\ last_op' = Op("save", "", "")
    /\ UNCHANGED <<sampler, observed, stepvars, test_data, test_labels, params>>

Load ==
    /\ OpsLeft /\ npz.exists
    /\ \E d \in LoadedDataSets(npz) :
         /\ labeled' = d.labeled /\ shuffle' = d.shuffle
         /\ data' = d.data /\ labels' = d.labels
         /\ test_data' = d.test_data /\ test_labels' = d.test_labels
         /\ params' = d.params
         /\ num_samples' = d.num_samples
         /\ index_in_epoch' = d.index_in_epoch
         /\ epochs_trained' = d.epochs_trained
         /\ batch_number' = d.batch_number
    /\ last_op' = Op("load", "", "")
    /\ UNCHANGED <<observed, stepvars, npz>>

\* ----------------------------------------------------------- load_dataset
\* the normalization of load_dataset applied to matrices tr (rows) and te
\* (values), with the parameters it stores
Normalized(dataset, filetype, tr, te, old) ==
    IF dataset \in CYTOF_DATASETS
    THEN LET a == arcsinh_div5(Xs(tr))
             b == arcsinh_div5(te)
             mn == ColMin(a \o b)
             mx == ColMax(a \o b)
         IN  {[data |-> WithXs(tr, MinMaxTransform(a, mn, mx)),
               test_data |-> MinMaxTransform(b, mn, mx),
               params |-> [old EXCEPT !.max = <<mx>>, !.min = <<mn>>]]}
    ELSE IF dataset \in RNASEQ_DATASETS /\ filetype # "npz"
    THEN LET x == Clip(Xs(tr) \o te)
         IN  {[data |-> WithXs(tr, SubSeq(PcaTransform(x, sign), 1, Len(tr))),
               test_data |-> SubSeq(PcaTransform(x, sign), Len(tr) + 1, Len(x)),
               params |-> [old EXCEPT !.components = <<sign>>,
                                      !.mean_offset = <<PcaMean(x)>>]]
              : sign \in {1, -1}}
    ELSE {[data |-> tr, test_data |-> te, params |-> old]}

RawValues == {v * FloatUnit : v \in 0..MaxRaw}
RawMatrices(n) == [1..n -> RawValues]
RawRows(xs) == [i \in 1..Len(xs) |-> [id |-> i, x |-> xs[i]]]
DatasetNames == {"flu", "mouse", "other"}

\* load_dataset(dataset, 'x.csv') of an unlabeled file has returned: the
\* split matrices went to DataSet(_data, _test_data, labeled=False), which
\* shuffled them; they were normalized by family and the DataSet saved as
\* 'x.npz'
LoadedDatasetCsv ==
    \E dataset \in DatasetNames, n \in 1..MaxPersistN :
    \E tr \in RawMatrices(n), te \in RawMatrices(1) :
    \E idx \in ShuffledIdx(n) :
    \E r \in Normalized(dataset, "csv", shuffled_data(RawRows(tr), idx),
                        te, NoParams) :
      /\ data = r.data /\ test_data = r.test_data /\ params = r.params
      /\ labels = <<>> /\ test_labels = <<>>
      /\ labeled = FALSE /\ shuffle = TRUE
      /\ num_samples = n
      /\ index_in_epoch = 0 /\ epochs_trained = 0 /\ batch_number = 0
      /\ npz = Archive
      /\ last_op = [NoOp EXCEPT !.name = "load_dataset",
                                !.dataset = dataset, !.filetype = "csv"]

\* load_dataset(dataset, 'x.npz'): DataSet.load, then the family's
\* normalization; nothing is saved
LoadDatasetNpz ==
    /\ OpsLeft /\ npz.exists
    /\ \E dataset \in DatasetNames :
       \E d \in LoadedDataSets(npz) :
       \E r \in Normalized(dataset, "npz", d.data, d.test_data, d.params) :
         /\ labeled' = d.labeled /\ shuffle' = d.shuffle
         /\ data' = r.data /\ labels' = d.labels
         /\ test_data' = r.test_data /\ test_labels' = d.test_labels
         /\ params' = r.params
         /\ num_samples' = d.num_samples
         /\ index_in_epoch' = d.index_in_epoch
         /\ epochs_trained' = d.epochs_trained
         /\ batch_number' = d.batch_number
         /\ last_op' = Op("load_dataset", dataset, "npz")
    /\ UNCHANGED <<observed, stepvars, npz>>

\* a DataSet constructed from raw matrices, with no archive yet
ConstructedRaw ==
    /\ npz = NoFile /\ last_op = NoOp /\ params = NoParams
    /\ \E sh \in BOOLEAN, lb \in BOOLEAN, n \in 1..MaxPersistN :
       \E tr \in RawMatrices(n), te \in RawMatrices(1) :
         /\ Constructed(sh, lb, RawRows(tr), IF lb THEN TrainLabels(n) ELSE <<>>)
         /\ test_data = te
         /\ test_labels = IF lb THEN <<LabelOf(0)>> ELSE <<>>

\* a DataSet made by the constructor or by load_dataset from a raw file
InitPersist == Fresh /\ (ConstructedRaw \/ LoadedDatasetCsv)

NextPersist == Save \/ Load \/ LoadDatasetNpz

SpecPersist == InitPersist /\ [][NextPersist]_vars

\* ===================================================== properties under Spec
Ids(rows) == [i \in 1..Len(rows) |-> rows[i].id]
NoRowTwice(rows) == \A i, j \in 1..Len(rows) : rows[i].id = rows[j].id => i = j
EveryRowOnce(rows) ==
    /\ Len(rows) = num_samples
    /\ NoRowTwice(rows)
    /\ \A i \in 1..Len(rows) :
         /\ rows[i].id \in 1..num_samples
         /\ rows[i] = TrainMatrix(num_samples)[rows[i].id]
\* the last call wrapped across the epoch boundary
LastCallWrapped == ret.status = "ok" /\ epochs_trained >= 1 /\ batch_number = 1
\* ... and its batch has rows of both epochs
LastBatchMixed == LastCallWrapped /\ 0 < index_in_epoch /\ index_in_epoch < calls.last

\* C1: every next_batch call with 0 < batchSize <= n_train returns a data
\* batch, and when labeled a labels batch, of exactly batchSize rows, also
\* when the call wraps across the epoch boundary.
C1_BatchLength ==
    calls.count > 0 =>
        /\ ret.status = "ok"
        /\ Len(ret.data) = calls.last
        /\ Len(ret.labels) = IF labeled THEN calls.last ELSE 0

C1_Witness ==
    /\ LastBatchMixed /\ shuffle /\ labeled
    /\ Len(ret.data) = calls.last /\ calls.last >= 2

\* C2: the rows returned by successive calls, concatenated, are consecutive
\* blocks of n_train rows, each holding every training row exactly once;
\* when batchSize divides n_train and every call used it, each run of
\* n_train/batchSize calls from a fresh DataSet is exactly one such block.
C2_EpochCoverage ==
    /\ stream.done > 0 => EveryRowOnce(stream.prev)
    /\ NoRowTwice(stream.block)
    /\ Len(stream.block) < num_samples
    /\ (calls.count > 0 /\ calls.uniform /\ num_samples % calls.size = 0) =>
        LET perEpoch == num_samples \div calls.size IN
            /\ stream.done = calls.count \div perEpoch
            /\ (calls.count % perEpoch = 0 => stream.block = <<>>)

C2_Witness ==
    /\ shuffle /\ calls.uniform /\ LastBatchMixed
    /\ stream.done = 1 /\ stream.block # <<>>
    /\ stream.prev # data

\* C3 as stated: 0 <= indexInEpoch < n_train in every reachable state.
C3_Original == 0 <= index_in_epoch /\ index_in_epoch < num_samples

\* C3 as amended: 0 <= indexInEpoch <= n_train in every reachable state.
\* It is 0 after construction, and n_train after a call that ends exactly
\* on the epoch boundary: the wrap is taken by the next call.
C3_IndexRange ==
    /\ 0 <= index_in_epoch /\ index_in_epoch <= num_samples
    /\ calls.count = 0 => index_in_epoch = 0

C3_Witness == calls.count > 0 /\ index_in_epoch = num_samples /\ num_samples >= 2

\* a fresh DataSet has had exactly k calls, all of the same batchSize, which
\* divides n_train
UniformCalls(k) ==
    /\ calls.count = k /\ k > 0 /\ calls.uniform
    /\ num_samples % calls.size = 0

\* C4 as stated: n_train/batchSize calls on a fresh DataSet, batchSize
\* dividing n_train, increase epochsTrained by exactly 1.
C4_Original ==
    UniformCalls(num_samples \div Max(calls.size, 1)) => epochs_trained = 1

\* C4 as amended: those n_train/batchSize calls leave epochsTrained at 0 (and
\* indexInEpoch at n_train); epochsTrained becomes 1 at the next call, the
\* first of the second epoch.
C4_EpochCount ==
    /\ UniformCalls(num_samples \div Max(calls.size, 1)) =>
           epochs_trained = 0 /\ index_in_epoch = num_samples
    /\ UniformCalls(num_samples \div Max(calls.size, 1) + 1) =>
           epochs_trained = 1

C4_Witness ==
    /\ UniformCalls(num_samples \div Max(calls.size, 1) + 1)
    /\ calls.size >= 2 /\ num_samples > calls.size

\* C6: a call with indexInEpoch + batchSize > n_train returns the rows
\* [indexInEpoch, n_train) of the order before the call followed by the rows
\* [0, remaining) of the order after it, remaining = batchSize - (n_train -
\* indexInEpoch), and leaves indexInEpoch = remaining, epochsTrained one
\* more, batchNumber = 1.  With n_train = 10, batchSize = 4 and no shuffle
\* the third call returns rows 8, 9, 0, 1 (ids 9, 10, 1, 2 here).
C6_Wraparound ==
    [][(calls'.count = calls.count + 1
        /\ index_in_epoch + calls'.last > num_samples) =>
          LET remaining == calls'.last - (num_samples - index_in_epoch) IN
            /\ ret'.status = "ok"
            /\ ret'.data = SubSeq(data, index_in_epoch + 1, num_samples)
                           \o SubSeq(data', 1, remaining)
            /\ labeled =>
                 ret'.labels = SubSeq(labels, index_in_epoch + 1, num_samples)
                               \o SubSeq(labels', 1, remaining)
            /\ index_in_epoch' = remaining
            /\ epochs_trained' = epochs_trained + 1
            /\ batch_number' = 1
            /\ (num_samples = 10 /\ ~shuffle /\ calls'.count = 3
                /\ calls'.uniform /\ calls'.size = 4) =>
                 /\ Ids(ret'.data) = <<9, 10, 1, 2>>
                 /\ index_in_epoch' = 2 /\ epochs_trained' = 1
       ]_vars

C6_Witness ==
    /\ shuffle /\ labeled /\ LastBatchMixed
    /\ num_samples = 3 /\ calls.last = 2 /\ index_in_epoch = 1
    /\ stream.prev # data

\* the example of C6 is reached
C6_ExampleReached ==
    /\ num_samples = 10 /\ ~shuffle /\ calls.count = 3
    /\ calls.uniform /\ calls.size = 4
    /\ Ids(ret.data) = <<9, 10, 1, 2>>
    /\ index_in_epoch = 2 /\ epochs_trained = 1 /\ batch_number = 1

\* C9: for a labeled DataSet, in every reachable state labels[i] is the
\* label first paired with the row now at data[i], and every returned pair
\* of batches is paired the same way, also when the batch joins a tail of
\* one order with a head of the next.
C9_LabelSync ==
    labeled =>
        /\ Len(labels) = Len(data)
        /\ \A i \in 1..Len(data) : labels[i] = LabelOf(data[i].id)
        /\ ret.status = "ok" =>
             /\ Len(ret.labels) = Len(ret.data)
             /\ \A j \in 1..Len(ret.data) :
                  ret.labels[j] = LabelOf(ret.data[j].id)

C9_Witness ==
    /\ labeled /\ shuffle /\ LastBatchMixed
    /\ data # TrainMatrix(num_samples)
    /\ Ids(ret.data) # Ids(SubSeq(data, 1, Len(ret.data)))

\* ================================================== properties under SpecAny
InContract(batch_size) == 0 < batch_size /\ batch_size <= num_samples

\* C5: next_batch(batchSize) fails for every batchSize outside
\* 0 < batchSize <= n_train, and the failing call leaves indexInEpoch,
\* epochsTrained, batchNumber and the row order unchanged.
C5_RejectsOutsideContract ==
    [][(calls'.count = calls.count + 1 /\ ~InContract(calls'.last)) =>
          /\ ret'.status = "AssertionError"
          /\ UNCHANGED <<index_in_epoch, epochs_trained, batch_number,
                         data, labels>>
      ]_vars

\* the half of C5 the code keeps: batchSize > n_train fails and changes
\* nothing
C5_RejectsTooLarge ==
    [][(calls'.count = calls.count + 1 /\ calls'.last > num_samples) =>
          /\ ret'.status = "AssertionError"
          /\ UNCHANGED <<index_in_epoch, epochs_trained, batch_number,
                         data, labels>>
      ]_vars

\* a call with batchSize <= 0 has returned a batch
C5_NonPositiveAccepted ==
    calls.count > 0 /\ calls.last <= 0 /\ ret.status = "ok"

\* a call with a negative batchSize has left indexInEpoch negative
C5_NegativeIndexReached == index_in_epoch < 0

\* ================================================ properties under SpecSteps
\* the statements of the wrap branch at which the batch is not yet computed
WrapBeforeBatch == {"L314", "L315", "L316", "L319", "L320", "L322", "L323"}

\* C10: in a wrapping call the reshuffle and the tail and head slices are
\* done before indexInEpoch, epochsTrained or batchNumber is written, so a
\* call interrupted before its batch is computed leaves the three counters
\* as they were before the call.
C10_CountersWrittenLast ==
    (ret.status = "Interrupted" /\ entry.at \in WrapBeforeBatch) =>
        Counters = entry.counters

\* a wrapping call was interrupted after the reshuffle, before the head
\* slice: the epoch is counted and the rows reordered, and no batch returned
C10_HalfDoneReached ==
    /\ ret.status = "Interrupted" /\ entry.at = "L323" /\ shuffle
    /\ epochs_trained = entry.counters[2] + 1
    /\ index_in_epoch = entry.counters[1]

\* a call that runs to its return leaves what the one-step next_batch leaves
StepsAgreeWithCall ==
    (pc = "idle" /\ entry.at = "returned") =>
        /\ C1_BatchLength /\ C3_IndexRange /\ C9_LabelSync
        /\ batch_number >= 1

\* =============================================== properties under SpecPersist
\* the same rows, each with the same label, in any order
SameRows(d, l, fd, fl, isLabeled) ==
    /\ Len(d) = Len(fd)
    /\ NoRowTwice(d)
    /\ \A i \in 1..Len(d) : \E j \in 1..Len(fd) :
         d[i] = fd[j] /\ (isLabeled => l[i] = fl[j])
JustLoaded == last_op.name = "load"

C7_WithParamsReached ==
    JustLoaded /\ params.min # <<>> /\ params = npz.params

\* load_dataset(dataset, 'x.npz') has just returned, and the archive was
\* written by the pipeline of that dataset's family
ReloadedFamilyA ==
    /\ last_op.name = "load_dataset" /\ last_op.filetype = "npz"
    /\ last_op.dataset \in CYTOF_DATASETS /\ npz.params.min # <<>>
ReloadedFamilyB ==
    /\ last_op.name = "load_dataset" /\ last_op.filetype = "npz"
    /\ last_op.dataset \in RNASEQ_DATASETS
    /\ npz.params.components # <<>>
Verbatim ==
    /\ SameRows(data, labels, npz.data, npz.labels, FALSE)
    /\ test_data = npz.test_data
    /\ params = npz.params

\* C8: load_dataset given a persisted archive of either family returns the
\* train matrix, test matrix and normalization parameters stored in the
\* archive; nothing is compressed, scaled, clipped or projected again and
\* no parameter is fitted again.
C8_ReloadVerbatim == (ReloadedFamilyA \/ ReloadedFamilyB) => Verbatim

\* the half of C8 the code keeps: an RNA-seq archive is reloaded verbatim
C8_RnaseqVerbatim == ReloadedFamilyB => Verbatim

\* a CyTOF archive reloaded: the min-max parameters were fitted again
C8_CytofRefitted == ReloadedFamilyA /\ params.max # npz.params.max

====
